---- MODULE Spec2Model ----
(***************************************************************************)
(* A model of the Lumii moderation pipeline (src/lumii_core_logic_v2.py)   *)
(* and of the chat handler that drives it (src/app.py).                    *)
(*                                                                         *)
(* Text is modelled by TLA+ strings, character by character.  The model's  *)
(* alphabet is ASCII plus one representative of every class of character   *)
(* that normalize_message treats specially; the non-ASCII ones are written *)
(* with ASCII stand-ins:                                                   *)
(*     "~"  U+200B ZERO WIDTH SPACE                                        *)
(*     "|"  U+2019 RIGHT SINGLE QUOTATION MARK                             *)
(*     "^"  U+030B COMBINING DOUBLE ACUTE ACCENT (category Mn)             *)
(*     "{"  U+0151 o with double acute     "["  U+0150 O with double acute *)
(*     "}"  U+0171 u with double acute     "]"  U+0170 U with double acute *)
(* "\t" is the tab.  The four precomposed letters are all the letters that *)
(* U+030B composes with under NFKC.                                        *)
(***************************************************************************)
EXTENDS Integers, Sequences, FiniteSets, TLC

\* ===================================================================
\* Strings and the regular-expression primitives of Python's re
\* ===================================================================

Ch(s, i) == SubSeq(s, i, i)

CharsOf(s) == {Ch(s, i) : i \in 1..Len(s)}

LowerLetters == "abcdefghijklmnopqrstuvwxyz"
UpperLetters == "ABCDEFGHIJKLMNOPQRSTUVWXYZ"
DigitChars == "0123456789"

\* \s of a str pattern
SpaceChars == {" ", "\t"}
\* \d
DigitSet == CharsOf(DigitChars)
\* \w : str.isalnum() or "_"
LowerSet == CharsOf(LowerLetters)
UpperSet == CharsOf(UpperLetters)
WordChars == LowerSet \cup UpperSet \cup DigitSet \cup {"_", "{", "}", "[", "]"}

IndexIn(s, c) == CHOOSE i \in 1..Len(s) : Ch(s, i) = c

\* int() of a string of decimal digits
ToInt(s) ==
    LET f[i \in 0..Len(s)] ==
            IF i = 0 THEN 0 ELSE 10 * f[i - 1] + (IndexIn(DigitChars, Ch(s, i)) - 1)
    IN  f[Len(s)]

\* s with every occurrence of the character c replaced by the string r
Replace(s, c, r) ==
    LET f[i \in 0..Len(s)] ==
            IF i = 0 THEN ""
            ELSE IF Ch(s, i) = c THEN f[i - 1] \o r
            ELSE f[i - 1] \o Ch(s, i)
    IN  f[Len(s)]

\* p occurs in s at position i
StartsAt(s, i, p) ==
    /\ i >= 1
    /\ i + Len(p) - 1 <= Len(s)
    /\ SubSeq(s, i, i + Len(p) - 1) = p

\* Python's `p in s`
Contains(s, p) == \E i \in 1..(Len(s) - Len(p) + 1) : StartsAt(s, i, p)

\* any(p in s for p in ps)
ContainsAny(s, ps) == \E p \in ps : Contains(s, p)

\* Positions run from 1 to Len(s)+1: position i is the gap before s[i].
Positions(s) == 1..(Len(s) + 1)

IsWordAt(s, i) == i >= 1 /\ i <= Len(s) /\ Ch(s, i) \in WordChars

\* \b at position i
WordBoundary(s, i) == IsWordAt(s, i - 1) # IsWordAt(s, i)

\* A regular expression is modelled by the set of positions at which a match
\* that starts at one of the positions I can end, so that concatenation is
\* composition and backtracking is set union.

\* \b
RxB(s, I) == {i \in I : WordBoundary(s, i)}

\* a literal
RxLit(s, I, p) == {i + Len(p) : i \in {j \in I : StartsAt(s, j, p)}}

\* (?:p1|p2|...) of literals
RxAlt(s, I, ps) == UNION {RxLit(s, I, p) : p \in ps}

\* C+ for a character class C
RxPlus(s, I, C) ==
    {j \in Positions(s) : \E i \in I : i < j /\ \A k \in i..(j - 1) : Ch(s, k) \in C}

\* C* for a character class C
RxStar(s, I, C) == I \cup RxPlus(s, I, C)

\* \W* (the complement of \w)
RxNonWordStar(s, I) ==
    {j \in Positions(s) : \E i \in I : i <= j /\ \A k \in i..(j - 1) : ~IsWordAt(s, k)}

\* .* (no newline is in the alphabet)
RxAnyStar(s, I) == {j \in Positions(s) : \E i \in I : i <= j}

\* \d{1,2}
RxDigits12(s, I) ==
    {j \in Positions(s) : \E i \in I :
        /\ j - i \in {1, 2}
        /\ \A k \in i..(j - 1) : Ch(s, k) \in DigitSet}

\* rx.search(s) for a pattern  \b(?:p1|p2|...)\b  of literals
SearchWords(s, ps) == RxB(s, RxAlt(s, RxB(s, Positions(s)), ps)) # {}

\* ===================================================================
\* normalize_message
\* ===================================================================

ZeroWidth == "~"
CurlyApostrophe == "|"
CombiningMark == "^"

\* str.strip()
Strip(s) ==
    LET first[i \in 1..(Len(s) + 1)] ==
            IF i > Len(s) \/ Ch(s, i) \notin SpaceChars THEN i ELSE first[i + 1]
        last[i \in 0..Len(s)] ==
            IF i = 0 \/ Ch(s, i) \notin SpaceChars THEN i ELSE last[i - 1]
    IN  IF first[1] > Len(s) THEN "" ELSE SubSeq(s, first[1], last[Len(s)])

\* the precomposed letter of a base letter followed by the combining mark
Composed(c) ==
    CASE c = "o" -> "{"
      [] c = "u" -> "}"
      [] c = "O" -> "["
      [] c = "U" -> "]"
      [] OTHER -> ""

\* unicodedata.normalize("NFKC", msg): a mark composes with the letter before
\* it if Unicode has the precomposed letter, and stays otherwise
NFKC(s) ==
    LET f[i \in 0..Len(s)] ==
            IF i = 0 THEN ""
            ELSE LET out == f[i - 1]
                     last == IF out = "" THEN "" ELSE Ch(out, Len(out))
                 IN  IF Ch(s, i) = CombiningMark /\ Composed(last) # ""
                     THEN SubSeq(out, 1, Len(out) - 1) \o Composed(last)
                     ELSE out \o Ch(s, i)
    IN  f[Len(s)]

\* re.sub(r"\s+", " ", msg)
CollapseSpaces(s) ==
    LET f[i \in 0..Len(s)] ==
            IF i = 0 THEN ""
            ELSE IF Ch(s, i) \in SpaceChars
                 THEN IF i > 1 /\ Ch(s, i - 1) \in SpaceChars THEN f[i - 1]
                      ELSE f[i - 1] \o " "
                 ELSE f[i - 1] \o Ch(s, i)
    IN  f[Len(s)]

normalize_message(message) ==
    LET msg1 == Strip(message)
        msg2 == NFKC(msg1)
        msg3 == Replace(msg2, ZeroWidth, "")
        msg4 == Replace(msg3, CurlyApostrophe, "'")
        msg5 == Replace(msg4, CombiningMark, "")
    IN  Strip(CollapseSpaces(msg5))

LowerChar(c) ==
    IF c \in UpperSet THEN Ch(LowerLetters, IndexIn(UpperLetters, c))
    ELSE IF c = "[" THEN "{"
    ELSE IF c = "]" THEN "}"
    ELSE c

UpperChar(c) ==
    IF c \in LowerSet THEN Ch(UpperLetters, IndexIn(LowerLetters, c))
    ELSE IF c = "{" THEN "["
    ELSE IF c = "}" THEN "]"
    ELSE c

\* str.lower()
Lower(s) ==
    LET f[i \in 0..Len(s)] == IF i = 0 THEN "" ELSE f[i - 1] \o LowerChar(Ch(s, i))
    IN  f[Len(s)]

\* ===================================================================
\* The texts of the model: what a student can type in a session and what
\* the LLM backend can answer
\* ===================================================================

\* the messages of a session
Messages ==
    {"hello", "im 9", "grade 3", "I'm 14", "i am 25",
     "kill myself", "k~ill  MYSELF", "My teacher said SUICIDE, dna 2+2",
     "I want to disappear from math class",
     "my teacher said send nudes", "my teacher said hello",
     "dna", "how do plants photosynthesize",
     "so much homework", "2+2", "ways to die",
     "I'm 18", "my teacher said don't tell anyone",
     "suicide for homework meth", "for homework meth dna",
     "dna everything due", "everything due 2+2"}

\* the texts of the backend's answers
ReplyTexts ==
    {"2+2 is 4.", "Here are some ways to die", "You could TAKE 5~ PILLS", ""}

\* the messages given to one detector on its own
FramingStarts == {"", "my teacher said ", "For a school project: ", "MY  MOM~ SAID "}
FramedContents ==
    {"hello", "send nudes", "how to kill", "methane", "gloves", "porn", "i want to die"}
WishStarts == {"", "I want to ", "I just want to ", "i wish i could "}
Euphemisms == {"disappear", "vanish"}
WishEnds == {"", " from math class", " from school", " into the crowd", " point"}

DetectMessages ==
    {f \o c : f \in FramingStarts, c \in FramedContents}
    \cup {w \o e \o t : w \in WishStarts, e \in Euphemisms, t \in WishEnds}
    \cup {"how do plants photosynthesize", "photosynthesis", "D-N-A", "poetry 2+2"}

Texts == Messages \cup ReplyTexts \cup DetectMessages

\* every string the pipeline analyses: a text, or a text it has normalized
Strings == Texts \cup {Lower(normalize_message(s)) : s \in Texts}

\* The value v of a pure function of the string s.  T tabulates the function
\* over Strings, so that it is computed once per string and not once per
\* call; for a string outside the table the value is computed in place.
Memo(T, s, v) == IF s \in DOMAIN T THEN T[s] ELSE v

\* normalize_message(s).lower(), over Strings
NormalizedLower == [s \in Strings |-> Lower(normalize_message(s))]

\* ===================================================================
\* The session state: a Python dict, modelled by a function whose domain
\* is the set of keys present
\* ===================================================================

\* LumiiState()
LumiiState == [k \in {} |-> 0]

\* key in state
Has(st, k) == k \in DOMAIN st
\* state.get(k, default)
Get(st, k, default) == IF k \in DOMAIN st THEN st[k] ELSE default
\* state[k] = v
Put(st, k, v) == (k :> v) @@ st

\* An assignment in place of setdefault.  MonitoringIsALatch tells it from
\* the setdefault of the source.
Overwrite(st, k, v) == [x \in DOMAIN st \cup {k} |-> IF x = k THEN v ELSE st[x]]

\* state.setdefault(k, v)
SetDefault(st, k, v) == IF k \in DOMAIN st THEN st ELSE Put(st, k, v)

Min(S) == CHOOSE x \in S : \A y \in S : x <= y
Max(S) == CHOOSE x \in S : \A y \in S : x >= y
\* the longest string of a non-empty set (a greedy quantifier's first choice)
Longest(S) == CHOOSE x \in S : \A y \in S : Len(x) >= Len(y)

\* ===================================================================
\* Age/grade helpers and regexes
\* ===================================================================

\* (?:st|nd|rd|th)
OrdinalSuffixes == {"st", "nd", "rd", "th"}

\* GRADE_RX, first alternative at position i:  grade\s*(\d{1,2})(?:st|nd|rd|th)?  then \b.
\* The set of strings group 1 can capture.
GradeAlt1(s, i) ==
    UNION {
        {SubSeq(s, a, b - 1) : b \in {c \in RxDigits12(s, {a}) :
            RxB(s, {c} \cup RxAlt(s, {c}, OrdinalSuffixes)) # {}}}
        : a \in RxStar(s, RxLit(s, {i}, "grade"), SpaceChars)}

\* second alternative:  (\d{1,2})(?:st|nd|rd|th)?\s*grade  then \b
GradeAlt2(s, i) ==
    {SubSeq(s, i, b - 1) : b \in {c \in RxDigits12(s, {i}) :
        RxB(s, RxLit(s, RxStar(s, {c} \cup RxAlt(s, {c}, OrdinalSuffixes), SpaceChars),
                     "grade")) # {}}}

\* third alternative:  (\d{1,2})\s*(?:th|st|nd|rd)\s*grader  then \b
GradeAlt3(s, i) ==
    {SubSeq(s, i, b - 1) : b \in {c \in RxDigits12(s, {i}) :
        RxB(s, RxLit(s, RxStar(s, RxAlt(s, RxStar(s, {c}, SpaceChars), OrdinalSuffixes),
                                 SpaceChars),
                     "grader")) # {}}}

\* the group that next((g for g in mg.groups() if g), None) yields for a match
\* of GRADE_RX that starts at i; "" when there is no match at i
GradeMatchAt(s, i) ==
    IF ~WordBoundary(s, i) THEN ""
    ELSE IF GradeAlt1(s, i) # {} THEN Longest(GradeAlt1(s, i))
    ELSE IF GradeAlt2(s, i) # {} THEN Longest(GradeAlt2(s, i))
    ELSE IF GradeAlt3(s, i) # {} THEN Longest(GradeAlt3(s, i))
    ELSE ""

\* GRADE_RX.search(text): the captured digits of the leftmost match, "" for None
GRADE_RX(text) ==
    LET starts == {i \in Positions(text) : GradeMatchAt(text, i) # ""}
    IN  IF starts = {} THEN "" ELSE GradeMatchAt(text, Min(starts))

\* (?!\s*(?:st|nd|rd|th)\s*grade) at position i
AgeLookahead(s, i) ==
    RxLit(s, RxStar(s, RxAlt(s, RxStar(s, {i}, SpaceChars), OrdinalSuffixes), SpaceChars),
          "grade") = {}

\* AGE_RX at position i:  \b(?:i[' ]?m|i am)\s+(\d{1,2})(?!...)\b ; the set of
\* strings group 1 can capture
AgeCaptures(s, i) ==
    LET afterI == RxLit(s, RxB(s, {i}), "i")
        who == RxLit(s, afterI \cup RxAlt(s, afterI, {"'", " "}), "m")
                 \cup RxLit(s, RxB(s, {i}), "i am")
    IN  UNION {
            {SubSeq(s, a, b - 1) : b \in {c \in RxDigits12(s, {a}) :
                AgeLookahead(s, c) /\ WordBoundary(s, c)}}
            : a \in RxPlus(s, who, SpaceChars)}

\* AGE_RX.search(text): group 1 of the leftmost match, "" for None
AGE_RX(text) ==
    LET starts == {i \in Positions(text) : AgeCaptures(text, i) # {}}
    IN  IF starts = {} THEN "" ELSE Longest(AgeCaptures(text, Min(starts)))

\* GRADE_RX.search and AGE_RX.search, over Strings
GradeMatches == [s \in Strings |-> GRADE_RX(s)]
AgeMatches == [s \in Strings |-> AGE_RX(s)]

grade_to_age(grade_num) == Max({6, Min({18, grade_num + 5})})

age_to_grade(age_num) == Max({1, Min({12, age_num - 5})})

\* (d): the default age is persisted, with a derived grade
PersistDefaultAge(st) ==
    LET default_age == Get(st, "student_age", 12)
    IN  [state |-> SetDefault(Put(st, "student_age", default_age),
                              "student_grade", age_to_grade(default_age)),
         age |-> default_age]

\* (c): an explicit age self-statement
PersistStatedAge(st, text) ==
    LET Stated(ma, age) ==
            IF ma # "" /\ 6 <= age /\ age <= 18
            THEN [state |-> SetDefault(Put(st, "student_age", age),
                                       "student_grade", age_to_grade(age)),
                  age |-> age]
            ELSE PersistDefaultAge(st)
        Matched(ma) == Stated(ma, ToInt(ma))
    IN  Matched(Memo(AgeMatches, text, AGE_RX(text)))

\* (b): a grade mention
PersistGrade(st, text) ==
    LET Graded(grade_str, grade, age) ==
            IF grade_str # ""
            THEN [state |-> Put(Put(st, "student_grade", grade), "student_age", age),
                  age |-> age]
            ELSE PersistStatedAge(st, text)
        Clamped(grade_str, grade) == Graded(grade_str, grade, grade_to_age(grade))
        Matched(grade_str) == Clamped(grade_str, Max({1, Min({12, ToInt(grade_str)})}))
    IN  Matched(Memo(GradeMatches, text, GRADE_RX(text)))

\* A resolver without step (a): it reads every message afresh.  StickyAge
\* tells it from the resolver of the source.
ResolveAgeFromMessage(st, message) ==
    PersistGrade(st, Memo(NormalizedLower, message, Lower(normalize_message(message))))

\* Returns [state |-> the state after the call, age |-> the value returned].
detect_age_from_message_and_history(st, message) ==
    IF Has(st, "student_age") /\ st["student_age"] \in Int
    THEN [state |-> st, age |-> st["student_age"]]
    ELSE PersistGrade(st, Memo(NormalizedLower, message, Lower(normalize_message(message))))

\* ===================================================================
\* Crisis detection
\* ===================================================================

\* w1\s+w2\s+...\s+wn for a sequence of literals
RxPhrase(s, I, ws) ==
    LET f[k \in 0..Len(ws)] ==
            IF k = 0 THEN I
            ELSE IF k = 1 THEN RxLit(s, I, ws[1])
            ELSE RxLit(s, RxPlus(s, f[k - 1], SpaceChars), ws[k])
    IN  f[Len(ws)]

EXPLICIT_CRISIS_PHRASES ==
    {"kill myself", "hurt myself", "end my life", "commit suicide", "suicide",
     "cut myself", "i want to die", "i want to kill myself", "i will kill myself",
     "i want to end my life"}

\* EXPLICIT_CRISIS_RX.search(ml) is not None
EXPLICIT_CRISIS_RX(ml) == SearchWords(ml, EXPLICIT_CRISIS_PHRASES)

\* (?:class|classroom|school|...|gym)
BenignPlaces ==
    {"class", "classroom", "school", "lesson", "math", "science", "biology",
     "chemistry", "physics", "english", "history", "geography", "art", "music",
     "pe", "gym"}

\* (?:want\s+to\s+|wanna\s+|wish\s+i\s+could\s+)?
WishPrefix(s, I) ==
    I \cup RxPlus(s, RxPhrase(s, I, <<"want", "to">>), SpaceChars)
      \cup RxPlus(s, RxLit(s, I, "wanna"), SpaceChars)
      \cup RxPlus(s, RxPhrase(s, I, <<"wish", "i", "could">>), SpaceChars)

\* \s+from\s+(?:class|...|gym) at position j
FromBenignPlace(s, j) ==
    RxAlt(s, RxPlus(s, RxLit(s, RxPlus(s, {j}, SpaceChars), "from"), SpaceChars),
          BenignPlaces) # {}

\* _DISAPPEAR_PATTERNS[0].search(ml)
DisappearPattern1(ml) ==
    \E j \in RxB(ml, RxAlt(ml, WishPrefix(ml, RxB(ml, Positions(ml))),
                           {"disappear", "dissapear", "disapear"})) :
        ~(\/ FromBenignPlace(ml, j)
          \/ RxPhrase(ml, RxPlus(ml, {j}, SpaceChars), <<"into", "the", "crowd">>) # {})

\* _DISAPPEAR_PATTERNS[1].search(ml)
DisappearPattern2(ml) ==
    \E j \in RxB(ml, RxLit(ml, WishPrefix(ml, RxB(ml, Positions(ml))), "vanish")) :
        ~(\/ FromBenignPlace(ml, j)
          \/ RxLit(ml, RxPlus(ml, {j}, SpaceChars), "point") # {})

\* _DISAPPEAR_PATTERNS[2].search(ml); the class ['’] holds both apostrophes
DisappearPattern3(ml) ==
    LET starts == RxB(ml, Positions(ml))
        dont == RxLit(ml, RxAlt(ml, RxLit(ml, RxPlus(ml, RxLit(ml, starts, "i"),
                                                      SpaceChars), "don"),
                                {"'", CurlyApostrophe}), "t")
    IN  RxB(ml, RxPhrase(ml, RxPlus(ml, dont, SpaceChars), <<"want", "to", "exist">>)
                \cup RxPhrase(ml, starts, <<"i", "want", "to", "disappear">>)) # {}

\* _DISAPPEAR_PATTERNS[3].search(ml)
DisappearPattern4(ml) ==
    LET starts == RxB(ml, Positions(ml))
    IN  RxB(ml, RxPhrase(ml, starts, <<"end", "it", "all">>)
                \cup RxPhrase(ml, starts, <<"end", "everything">>)) # {}

\* any(rx.search(ml) for rx in _DISAPPEAR_PATTERNS)
_DISAPPEAR_PATTERNS(ml) ==
    \/ DisappearPattern1(ml)
    \/ DisappearPattern2(ml)
    \/ DisappearPattern3(ml)
    \/ DisappearPattern4(ml)

\* EXPLICIT_CRISIS_RX.search and the search of _DISAPPEAR_PATTERNS, over Strings
ExplicitCrisisMatches == [s \in Strings |-> EXPLICIT_CRISIS_RX(s)]
DisappearMatches == [s \in Strings |-> _DISAPPEAR_PATTERNS(s)]

\* In the scripted replies an emoji is written as its name in parentheses
\* and the em dash as "--".
generate_age_adaptive_crisis_intervention(student_age, student_name) ==
    LET name_part == IF student_name # "" THEN student_name \o ", " ELSE ""
    IN  "(blue heart) " \o name_part \o "I|m really glad you told me. You matter. "
        \o "Could you tell a trusted adult (parent/guardian, teacher, or school counselor) how you feel? "
        \o "They can help you right now. "
        \o "I|m here to listen -- what|s been the hardest part today?"

\* what both branches of global_crisis_guard do once a pattern has matched
CrisisIntervene(st, message) ==
    LET Intervene(st1, age) ==
            [state |-> Put(Put(st1, "safety_interventions",
                               Get(st1, "safety_interventions", 0) + 1),
                           "post_crisis_monitoring", TRUE),
             triggered |-> TRUE,
             intervention |-> generate_age_adaptive_crisis_intervention(
                                  age, Get(st1, "student_name", ""))]
        Aged(r) == Intervene(r.state, r.age)
    IN  Aged(detect_age_from_message_and_history(st, message))

\* Returns [state, triggered, intervention]; intervention "" stands for None.
\* A guard that also triggers while post_crisis_monitoring is set.
\* PriorityIgnoresSessionState tells it from the guard of the source.
GuardWhileMonitoring(st, message) ==
    LET Guard(ml, intervened) ==
            IF Get(st, "post_crisis_monitoring", FALSE) THEN intervened
            ELSE IF Memo(ExplicitCrisisMatches, ml, EXPLICIT_CRISIS_RX(ml)) THEN intervened
            ELSE IF Memo(DisappearMatches, ml, _DISAPPEAR_PATTERNS(ml)) THEN intervened
            ELSE [state |-> st, triggered |-> FALSE, intervention |-> ""]
    IN  Guard(Strip(Memo(NormalizedLower, message, Lower(normalize_message(message)))),
              CrisisIntervene(st, message))

global_crisis_guard(st, message) ==
    LET Guard(ml, intervened) ==
            IF Memo(ExplicitCrisisMatches, ml, EXPLICIT_CRISIS_RX(ml)) THEN intervened
            ELSE IF Memo(DisappearMatches, ml, _DISAPPEAR_PATTERNS(ml)) THEN intervened
            ELSE [state |-> st, triggered |-> FALSE, intervention |-> ""]
    IN  Guard(Strip(Memo(NormalizedLower, message, Lower(normalize_message(message)))),
              CrisisIntervene(st, message))

\* ===================================================================
\* Subject / manipulation
\* ===================================================================

_BETA_RESTRICTED_SUBJECTS ==
    <<"english", "literature", "reading comprehension", "poetry", "novels",
     "shakespeare", "writing", "essays", "creative writing", "grammar",
     "vocabulary", "biology", "anatomy", "physiology", "human body",
     "life science", "genetics", "evolution", "ecosystems", "cells",
     "organisms", "social studies", "civics", "government", "politics",
     "economics", "sociology", "psychology", "philosophy", "ethics",
     "religion", "culture", "art", "music", "drama", "theater", "dance",
     "creative arts", "art history", "spanish", "french", "german",
     "chinese", "japanese", "foreign language", "health",
     "physical education", "fitness", "nutrition", "wellness">>

_MANIPULATION_FRAMINGS ==
    {"my teacher said", "my mom said", "my dad said", "my parents said",
     "for a school project", "for homework", "for my assignment",
     "for my class", "my friend asked me", "someone asked me",
     "i heard that", "is it true that", "my teacher wants to know",
     "for educational purposes", "for learning",
     "helping my little brother", "helping my sister",
     "babysitting question"}

\* each pattern of _HARMFUL_CONTENT_PATTERNS is \b(p1|p2|...)\b
_HARMFUL_CONTENT_PATTERNS ==
    <<{"porn", "pornography", "sex videos", "sexual content", "nude", "naked"},
      {"how to make drugs", "drug recipes", "meth", "cocaine", "heroin", "fentanyl"},
      {"how to hurt", "how to kill", "making weapons", "bomb making", "violence against"},
      {"how to steal", "shoplifting", "breaking into", "illegal downloads", "piracy"},
      {"dangerous challenges", "self harm methods", "suicide methods", "risky behaviors"}>>

critical ==
    {"dna", "genes", "genetics", "ovulation", "pregnant", "sex", "sperm"}

biology_health_keywords ==
    {"reproduce", "reproduction", "mating", "breeding", "sex", "sexual",
     "pregnancy", "pregnant", "birth", "babies", "puberty", "menstruation",
     "periods", "hormones", "gestation", "fertilize", "sperm", "egg",
     "ovulation", "anatomy", "physiology", "body parts", "private parts",
     "genitals", "sexual health", "reproductive system", "immune system",
     "digestive system", "nervous system", "circulatory system",
     "respiratory system", "evolution", "genetics", "dna", "genes",
     "heredity", "cells", "organisms", "ecosystems", "food chain",
     "photosynthesis", "mitosis", "meiosis", "drugs", "alcohol", "smoking",
     "vaping", "nutrition", "diet", "mental health", "depression",
     "anxiety", "eating disorders", "body image"}

\* re.sub(r"[^a-z0-9]+", " ", ml)
WordsOnly(ml) ==
    LET keep == LowerSet \cup DigitSet
        f[i \in 0..Len(ml)] ==
            IF i = 0 THEN ""
            ELSE IF Ch(ml, i) \in keep THEN f[i - 1] \o Ch(ml, i)
            ELSE IF i > 1 /\ Ch(ml, i - 1) \notin keep THEN f[i - 1]
            ELSE f[i - 1] \o " "
    IN  f[Len(ml)]

\* set(ml_words.split())
Tokens(s) ==
    LET starts == {i \in 1..Len(s) :
                      Ch(s, i) \notin SpaceChars /\ (i = 1 \/ Ch(s, i - 1) \in SpaceChars)}
        end(i) == Min({j \in i..Len(s) : j = Len(s) \/ Ch(s, j + 1) \in SpaceChars})
    IN  {SubSeq(s, i, end(i)) : i \in starts}

\* re.search(r"\b a \s*\W*\s* b \s*\W*\s* c \b", ml) for three letters a, b, c
SpelledOut(ml, a, b, c) ==
    LET gap(I) == RxStar(ml, RxNonWordStar(ml, RxStar(ml, I, SpaceChars)), SpaceChars)
    IN  RxB(ml, RxLit(ml, gap(RxLit(ml, gap(RxLit(ml, RxB(ml, Positions(ml)), a)), b)), c)) # {}

\* Returns [restricted, subject].
classify_subject_request(message) ==
    LET Classified(ml, ml_words, named) ==
            IF SearchWords(ml_words, biology_health_keywords)
            THEN [restricted |-> TRUE, subject |-> "biology"]
            ELSE IF Tokens(ml_words) \cap critical # {}
            THEN [restricted |-> TRUE, subject |-> "biology"]
            ELSE IF SpelledOut(ml, "d", "n", "a")
            THEN [restricted |-> TRUE, subject |-> "biology"]
            ELSE IF SpelledOut(ml, "s", "e", "x")
            THEN [restricted |-> TRUE, subject |-> "biology"]
            ELSE IF named # {}
            THEN [restricted |-> TRUE, subject |-> _BETA_RESTRICTED_SUBJECTS[Min(named)]]
            ELSE [restricted |-> FALSE, subject |-> ""]
        Normalized(ml) ==
            Classified(ml, WordsOnly(ml),
                       {k \in 1..Len(_BETA_RESTRICTED_SUBJECTS) :
                            Contains(ml, _BETA_RESTRICTED_SUBJECTS[k])})
    IN  Normalized(Lower(normalize_message(message)))

red_flags ==
    {"inappropriate touching", "touch me", "private parts", "genitals",
     "naked", "undressed", "shower", "bathroom", "send pics", "send nudes",
     "nudes", "sext", "sexting", "naked photos", "webcam", "video chat",
     "private video", "show me your", "groom", "grooming",
     "keep it secret", "don't tell your parents", "don't tell anyone",
     "this is between us", "our secret", "special friendship",
     "mature for your age", "drugs", "alcohol", "smoking", "vaping",
     "pills", "medication", "knife", "weapon", "hurt", "violence",
     "dangerous", "boyfriend", "girlfriend", "dating", "romantic", "love",
     "kissing", "sexual", "sexy", "attraction", "crush"}

\* A detector that does not ask for a framing phrase.
\* ManipulationNeedsCoOccurrence tells it from the detector of the source.
FlagsWithoutFraming(message) ==
    LET Detected(ml) ==
            \/ \E k \in 1..Len(_HARMFUL_CONTENT_PATTERNS) :
                   SearchWords(ml, _HARMFUL_CONTENT_PATTERNS[k])
            \/ ContainsAny(ml, red_flags)
    IN  Detected(Lower(normalize_message(message)))

detect_manipulation_attempt(message) ==
    LET Detected(ml) ==
            IF ~ContainsAny(ml, _MANIPULATION_FRAMINGS) THEN FALSE
            ELSE IF \E k \in 1..Len(_HARMFUL_CONTENT_PATTERNS) :
                        SearchWords(ml, _HARMFUL_CONTENT_PATTERNS[k])
            THEN TRUE
            ELSE ContainsAny(ml, red_flags)
    IN  Detected(Lower(normalize_message(message)))

\* the two detectors, over Strings
SubjectVerdicts == [s \in Strings |-> classify_subject_request(s)]
ManipulationVerdicts == [s \in Strings |-> detect_manipulation_attempt(s)]

\* Python's None
None == "None"
\* bool(x) for a value that is None or a string
Truthy(x) == x # None /\ x # ""

\* str.title() on the subject names: the first letter of every word upper-cased
Title(s) ==
    LET letters == LowerSet \cup UpperSet
        f[i \in 0..Len(s)] ==
            IF i = 0 THEN ""
            ELSE IF i = 1 \/ Ch(s, i - 1) \notin letters THEN f[i - 1] \o UpperChar(Ch(s, i))
            ELSE f[i - 1] \o LowerChar(Ch(s, i))
    IN  f[Len(s)]

generate_subject_restriction_response(subject, student_age, student_name) ==
    LET name_part == IF student_name # "" THEN student_name \o ", " ELSE ""
        friendly == IF subject # "" /\ Lower(subject) \notin {"pe", "p.e.", "physical education", "gym"}
                    THEN Title(subject) ELSE "PE"
    IN  IF Lower(subject) \in {"biology", "health"}
        THEN IF student_age <= 11
             THEN "(herb) " \o name_part \o "That's a thoughtful question! During beta I focus on Math, Physics, Chemistry, "
                  \o "Geography, and History. Biology/health topics are best discussed with your parents, teacher, or school nurse. "
                  \o "Want to pick a math/science topic together?"
             ELSE "(herb) " \o name_part \o "Important topic! During beta I specialize in Math, Physics, Chemistry, Geography, and History. "
                  \o "For biology/health, please check with your parents/guardians or a health teacher. Shall we dive into one of my beta subjects?"
        ELSE IF student_age <= 11
        THEN "(books) " \o name_part \o "I can't help with **" \o friendly \o "** during beta. I *can* help with Math, Physics, Chemistry, Geography, or History. "
             \o "Which one should we pick?"
        ELSE "(books) " \o name_part \o "Thanks for asking about **" \o friendly \o "**. During beta I'm focusing on specific subjects. "
             \o "I can help with Math, Physics, Chemistry, Geography, or History -- want to choose one?"

generate_manipulation_response(student_age, student_name) ==
    LET name_part == IF student_name # "" THEN student_name \o ", " ELSE ""
    IN  IF student_age <= 11
        THEN "(shield) " \o name_part \o "I can't help with that request. If a grown-up asked you, please check with your parents or teacher directly. "
             \o "Let's focus on safe learning instead! What math or science topic should we try?"
        ELSE "(shield) " \o name_part \o "I can't provide information on that topic regardless of framing. "
             \o "For legitimate assignments, ask your teacher and use school-approved resources. "
             \o "I can help with Math, Physics, Chemistry, Geography, or History -- what should we tackle?"

\* ===================================================================
\* Input/output validators
\* ===================================================================

\* rx.search(s) for pattern n of FORBIDDEN_RESPONSE_PATTERNS (1..14) and of
\* the three patterns FORBIDDEN_INPUT_PATTERNS adds (15..17)
ForbiddenPattern(n, s) ==
    LET starts == RxB(s, Positions(s))
        literal(p) == SearchWords(s, {p})
    IN  CASE n = 1 -> literal("how to hurt yourself")
          [] n = 2 -> literal("how to kill yourself")
          [] n = 3 -> literal("take these pills")
          [] n = 4 -> literal("cut yourself here")
          [] n = 5 -> literal("hide it from your parents")
          [] n = 6 -> literal("don't tell anyone")
          [] n = 7 -> literal("ways to die")
          [] n = 8 -> literal("methods of suicide")
          [] n = 9 -> literal("hide from parents")
          [] n = 10 -> literal("use a blade")
          \* \bmix(ed)?\s+(pills|drugs|chemicals)\b
          [] n = 11 -> RxB(s, RxAlt(s, RxPlus(s, RxAlt(s, starts, {"mix", "mixed"}), SpaceChars),
                                    {"pills", "drugs", "chemicals"})) # {}
          [] n = 12 -> literal("search for methods")
          \* \bingest\s+(pills|chemicals|substances)\b
          [] n = 13 -> RxB(s, RxAlt(s, RxPlus(s, RxLit(s, starts, "ingest"), SpaceChars),
                                    {"pills", "chemicals", "substances"})) # {}
          \* \btake\s+\d+\s+(pills|tablets)\b
          [] n = 14 -> RxB(s, RxAlt(s, RxPlus(s, RxPlus(s, RxPlus(s, RxLit(s, starts, "take"),
                                                                  SpaceChars), DigitSet), SpaceChars),
                                    {"pills", "tablets"})) # {}
          \* \bjailbreak\b.*\b(ignore|bypass|override)\b
          [] n = 15 -> RxB(s, RxAlt(s, RxB(s, RxAnyStar(s, RxB(s, RxLit(s, starts, "jailbreak")))),
                                    {"ignore", "bypass", "override"})) # {}
          \* \bpretend you are\b.*\b(not safe|harmful|dangerous)\b
          [] n = 16 -> RxB(s, RxAlt(s, RxB(s, RxAnyStar(s, RxB(s, RxLit(s, starts, "pretend you are")))),
                                    {"not safe", "harmful", "dangerous"})) # {}
          \* \bact like\b.*\b(evil|harmful|bad)\b
          [] n = 17 -> RxB(s, RxAlt(s, RxB(s, RxAnyStar(s, RxB(s, RxLit(s, starts, "act like")))),
                                    {"evil", "harmful", "bad"})) # {}

\* the indices of the patterns of each list
FORBIDDEN_RESPONSE_PATTERNS == 1..14
FORBIDDEN_INPUT_PATTERNS == 1..17

\* Returns [ok, pattern]: pattern is the index of the first pattern that
\* matches, 0 for None.
validate_user_input(message) ==
    LET Verdict(hits) == IF hits # {} THEN [ok |-> FALSE, pattern |-> Min(hits)]
                         ELSE [ok |-> TRUE, pattern |-> 0]
        Normalized(ml) == Verdict({k \in FORBIDDEN_INPUT_PATTERNS : ForbiddenPattern(k, ml)})
    IN  Normalized(Lower(normalize_message(message)))

\* A validator that searches the response as it was sent, neither normalized
\* nor lower-cased.  OutputValidatorBackstop tells it from the validator of
\* the source.
ValidateResponseAsSent(response) ==
    LET Verdict(hits) == IF hits # {} THEN [ok |-> FALSE, pattern |-> Min(hits)]
                         ELSE [ok |-> TRUE, pattern |-> 0]
    IN  Verdict({k \in FORBIDDEN_RESPONSE_PATTERNS : ForbiddenPattern(k, response)})

validate_ai_response(response) ==
    LET Verdict(hits) == IF hits # {} THEN [ok |-> FALSE, pattern |-> Min(hits)]
                         ELSE [ok |-> TRUE, pattern |-> 0]
        Normalized(rl) == Verdict({k \in FORBIDDEN_RESPONSE_PATTERNS : ForbiddenPattern(k, rl)})
    IN  Normalized(Lower(normalize_message(response)))

\* the validators, over Strings
UserInputVerdicts == [s \in Strings |-> validate_user_input(s)]
AiResponseVerdicts == [s \in Strings |-> validate_ai_response(s)]

\* ===================================================================
\* Conversation utils
\* ===================================================================

\* The keys no modelled code reads are set as in the source; family_id is a
\* random identifier, written "uuid".
initialize_state(st) ==
    LET defaults == <<
            <<"agreed_to_terms", TRUE>>, <<"harmful_request_count", 0>>,
            <<"safety_warnings_given", 0>>, <<"last_offer", None>>,
            <<"awaiting_response", FALSE>>, <<"behavior_strikes", 0>>,
            <<"last_behavior_type", None>>, <<"behavior_timeout", FALSE>>,
            <<"family_id", "uuid">>, <<"student_profiles", <<>>>>,
            <<"messages", <<>>>>, <<"interaction_count", 0>>,
            <<"emotional_support_count", 0>>, <<"organization_help_count", 0>>,
            <<"math_problems_solved", 0>>, <<"student_name", "">>,
            <<"conversation_summary", "">>, <<"memory_safe_mode", FALSE>>,
            <<"safety_interventions", 0>>, <<"post_crisis_monitoring", FALSE>> >>
        f[i \in 0..Len(defaults)] ==
            IF i = 0 THEN st ELSE SetDefault(f[i - 1], defaults[i][1], defaults[i][2])
    IN  f[Len(defaults)]

\* a chat entry {"role": ..., "content": ...}
Msg(role, content) == [role |-> role, content |-> content]

build_conversation_history(st) ==
    LET summary == Get(st, "conversation_summary", "")
        msgs == Get(st, "messages", <<>>)
        head == IF Truthy(summary) THEN <<Msg("system", summary)>> ELSE <<>>
    IN  head \o SelectSeq(msgs, LAMBDA m : m.role \in {"user", "assistant"})

\* An estimate without the floor of one token.  TrimKeepsNewestThatFits tells
\* it from the estimate of the source.
EstimateWithoutFloor(text) == (Len(text) + 3) \div 4

_estimate_tokens(text) == Max({1, (Len(text) + 3) \div 4})

\* the loop of _trim_history_by_tokens from entry i of history downwards;
\* kept is in reverse chronological order, as in the source
RECURSIVE TrimLoop(_, _, _, _, _)
TrimLoop(history, budget, i, total, kept) ==
    IF i = 0 THEN kept
    ELSE LET cost == _estimate_tokens(history[i].content)
         IN  IF total + cost > budget THEN kept
             ELSE TrimLoop(history, budget, i - 1, total + cost, Append(kept, history[i]))

\* list(reversed(s))
Reversed(s) == [i \in 1..Len(s) |-> s[Len(s) + 1 - i]]

\* Trimming that returns the kept entries newest first.
\* TrimKeepsRecentSuffix tells it from the trimming of the source.
TrimNewestFirst(history, budget) == TrimLoop(history, budget, Len(history), 0, <<>>)

_trim_history_by_tokens(history, budget) ==
    Reversed(TrimLoop(history, budget, Len(history), 0, <<>>))

\* ===================================================================
\* System prompt builder
\* ===================================================================

\* str(n) for n >= 0
ToStr(n) ==
    LET f[k \in 0..n] == IF k < 10 THEN Ch(DigitChars, k + 1)
                         ELSE f[k \div 10] \o Ch(DigitChars, (k % 10) + 1)
    IN  f[n]

\* The fixed paragraphs of the prompt are abridged to their headings.
create_ai_system_prompt_with_safety(st, tool_name, student_age, student_name, is_distressed) ==
    LET name_part == IF student_name # "" THEN "The student's name is " \o student_name \o ". "
                     ELSE ""
        distress_part == IF is_distressed
                         THEN "The student is showing signs of emotional distress, so prioritize emotional support. "
                         ELSE ""
    IN  "You are Lumii, a caring AI learning companion specializing in Math, Physics, Chemistry, Geography, and History during our beta phase. "
        \o name_part \o distress_part
        \o "The student is approximately " \o ToStr(student_age) \o " years old. "
        \o "BETA SUBJECT SCOPE - ONLY HELP WITH: ... DO NOT cover: ... Safety: ..."

\* ===================================================================
\* HTTP utils
\* ===================================================================

\* SETTINGS.retry_attempts
retry_attempts == 3
\* A set of retried statuses that also holds 401.  TerminalFailuresAreNotRetried
\* tells it from the set of the source.
RetriedWith401 == {401, 429, 500, 502, 503, 504}

\* the statuses _post_with_retry retries
TransientStatus == {429, 500, 502, 503, 504}

Pow2(i) == 2 ^ i

\* A delay that does not grow.  RetriesThenFails tells it from the delay of
\* the source.
ConstantBackoff(i) == 500

\* time.sleep(0.5 * (2 ** i)), in milliseconds
Backoff(i) == 500 * Pow2(i)

\* The loop of _post_with_retry from attempt i (0-based).  backend[i + 1] is
\* what requests.post does on attempt i: a response, or [exc |-> TRUE, ...]
\* for a requests.RequestException.
\* Returns [raised, resp, posts, sleeps]: when raised, resp is the
\* RequestException that escapes; otherwise resp is the response returned
\* (NoResponse for Python's None).
NoResponse == [exc |-> FALSE, none |-> TRUE]

RECURSIVE PostLoop(_, _, _, _, _)
PostLoop(i, attempts, backend, posts, sleeps) ==
    IF i >= attempts
    THEN [raised |-> FALSE, resp |-> NoResponse, posts |-> posts, sleeps |-> sleeps]
    ELSE LET out == backend[i + 1]
         IN  IF out.exc
             THEN IF i = attempts - 1
                  THEN [raised |-> TRUE, resp |-> out, posts |-> posts + 1, sleeps |-> sleeps]
                  ELSE PostLoop(i + 1, attempts, backend, posts + 1, Append(sleeps, Backoff(i)))
             ELSE IF out.status_code \in TransientStatus /\ i < attempts - 1
                  THEN PostLoop(i + 1, attempts, backend, posts + 1, Append(sleeps, Backoff(i)))
                  ELSE [raised |-> FALSE, resp |-> out, posts |-> posts + 1, sleeps |-> sleeps]

_post_with_retry(attempts, backend) == PostLoop(0, attempts, backend, 0, <<>>)

\* ===================================================================
\* LLM call
\* ===================================================================

\* JSON values, tagged with their Python type
JNull == [t |-> "null"]
\* a body resp.json() cannot parse
JInvalid == [t |-> "invalid"]
JStr(s) == [t |-> "str", v |-> s]
JArr(a) == [t |-> "list", v |-> a]
JObj(o) == [t |-> "dict", v |-> o]

\* bool(j)
JTruthy(j) ==
    CASE j.t = "null" -> FALSE
      [] j.t = "str" -> j.v # ""
      [] j.t = "list" -> Len(j.v) > 0
      [] j.t = "dict" -> DOMAIN j.v # {}

\* j.get(k) on a dict
JGet(j, k) == IF k \in DOMAIN j.v THEN j.v[k] ELSE JNull

\* (((result.get("choices") or [{}])[0].get("message") or {}).get("content"))
\* Returns [raised, content]: raised names the exception the expression
\* raises (None if none), content is the JSON value it yields.
ExtractContent(result) ==
    LET OfMessage(message) ==
            IF message.t # "dict" THEN [raised |-> "AttributeError", content |-> JNull]
            ELSE [raised |-> None, content |-> JGet(message, "content")]
        OfFirst(first) ==
            IF first.t # "dict" THEN [raised |-> "AttributeError", content |-> JNull]
            ELSE OfMessage(IF JTruthy(JGet(first, "message")) THEN JGet(first, "message")
                           ELSE JObj(<<>>))
        OfChoices(choices) ==
            IF choices.t = "dict" THEN [raised |-> "KeyError", content |-> JNull]
            ELSE OfFirst(IF choices.t = "str" THEN JStr(Ch(choices.v, 1)) ELSE choices.v[1])
    IN  IF result.t # "dict" THEN [raised |-> "AttributeError", content |-> JNull]
        ELSE OfChoices(IF JTruthy(JGet(result, "choices")) THEN JGet(result, "choices")
                       ELSE JArr(<<JObj(<<>>)>>))

\* the literal budget of get_groq_response_with_memory_safety
HistoryBudget == 2400

InputDeflection ==
    "(blue heart) I care about your safety and wellbeing, and I can't help with that request.\n\n"
    \o "Please talk to a trusted adult (parent/guardian, teacher, or school counselor). "
    \o "How can I help with Math, Physics, Chemistry, Geography, or History today?"

OutputDeflection ==
    "(blue heart) I understand you might be going through something difficult.\n\n"
    \o "Please talk to a trusted adult (parent/guardian, teacher, or school counselor). "
    \o "How can I help you with Math, Physics, Chemistry, Geography, or History today?"

\* what the LLM call returns or raises, and what it did on the way
LlmOutcome(ai, err, needs_fallback, raised, http, request) ==
    [ai |-> ai, err |-> err, needs_fallback |-> needs_fallback, raised |-> raised,
     posts |-> http.posts, sleeps |-> http.sleeps, request |-> request]

NoHttp == [posts |-> 0, sleeps |-> <<>>]

\* the part of get_groq_response_with_memory_safety after the request
HandleResponse(http, request) ==
    LET Validated(ai_content) ==
            IF ai_content.t # "str" \/ Strip(ai_content.v) = ""
            THEN LlmOutcome(None, "Empty response from API", TRUE, None, http, request)
            ELSE IF ~Memo(AiResponseVerdicts, ai_content.v,
                          validate_ai_response(ai_content.v)).ok
            THEN LlmOutcome(OutputDeflection, None, FALSE, None, http, request)
            ELSE LlmOutcome(ai_content.v, None, FALSE, None, http, request)
        Parsed(parsed) ==
            IF parsed.raised # None
            THEN LlmOutcome(None, None, FALSE, parsed.raised, http, request)
            ELSE Validated(parsed.content)
        Received(resp) ==
            IF http.raised
            THEN LlmOutcome(None, "Network error: " \o resp.text, TRUE, None, http, request)
            ELSE IF "none" \in DOMAIN resp
            THEN LlmOutcome(None, None, FALSE, "AttributeError", http, request)
            ELSE IF resp.status_code # 200
            THEN LlmOutcome(None,
                            "Groq HTTP " \o ToStr(resp.status_code) \o ": " \o resp.text,
                            resp.status_code \in TransientStatus, None, http, request)
            ELSE IF resp.json = JInvalid
            THEN LlmOutcome(None, "Invalid JSON from API", TRUE, None, http, request)
            ELSE Parsed(ExtractContent(resp.json))
    IN  Received(http.resp)

\* An LLM call that looks for the key before it validates the input.
\* PolicyRejectionIsNoError tells it from the call of the source.
CallLlmKeyFirst(st, current_message, tool_name, student_age, student_name, is_distressed, api_key, groq_key, backend) ==
    LET key == IF Truthy(api_key) THEN api_key ELSE groq_key
        system_prompt == create_ai_system_prompt_with_safety(
                             st, tool_name, student_age, student_name, is_distressed)
        history == _trim_history_by_tokens(build_conversation_history(st), HistoryBudget)
        messages == <<Msg("system", system_prompt)>> \o history
                        \o <<Msg("user", current_message)>>
    IN  IF ~Truthy(key)
        THEN LlmOutcome(None, "No API key configured", FALSE, None, NoHttp, <<>>)
        ELSE IF ~Memo(UserInputVerdicts, current_message, validate_user_input(current_message)).ok
        THEN LlmOutcome(InputDeflection, None, FALSE, None, NoHttp, <<>>)
        ELSE HandleResponse(_post_with_retry(retry_attempts, backend), messages)

\* api_key is the argument, groq_key is SETTINGS.groq_api_key; backend is
\* what the network does on each attempt.
get_groq_response_with_memory_safety(st, current_message, tool_name, student_age, student_name, is_distressed, api_key, groq_key, backend) ==
    LET key == IF Truthy(api_key) THEN api_key ELSE groq_key
        system_prompt == create_ai_system_prompt_with_safety(
                             st, tool_name, student_age, student_name, is_distressed)
        history == _trim_history_by_tokens(build_conversation_history(st), HistoryBudget)
        messages == <<Msg("system", system_prompt)>> \o history
                        \o <<Msg("user", current_message)>>
    IN  IF ~Memo(UserInputVerdicts, current_message, validate_user_input(current_message)).ok
        THEN LlmOutcome(InputDeflection, None, FALSE, None, NoHttp, <<>>)
        ELSE IF ~Truthy(key)
        THEN LlmOutcome(None, "No API key configured", FALSE, None, NoHttp, <<>>)
        ELSE HandleResponse(_post_with_retry(retry_attempts, backend), messages)

\* ===================================================================
\* Priority detection
\* ===================================================================

org_indicators ==
    {"multiple assignments", "so much homework", "everything due",
     "need to organize", "overwhelmed with work", "too many projects"}

math_keywords ==
    {"solve", "calculate", "math problem", "math homework", "equation",
     "equations", "help with math", "do this math", "math question",
     "physics problem", "chemistry problem", "algebra", "geometry",
     "fraction", "fractions", "multiplication", "division", "addition",
     "subtraction", "trigonometry", "calculus", "physics", "chemistry",
     "molecular", "periodic table", "chemical reaction", "mechanics",
     "thermodynamics"}

geo_keywords ==
    {"geography", "map", "country", "continent", "capital",
     "physical geography", "history", "historical", "world war", "ancient",
     "timeline", "historical event"}

\* re.search(r'\d+\s*[\+\-\*/]\s*\d+', ml)
ArithmeticPattern(ml) ==
    RxPlus(ml, RxStar(ml, RxAlt(ml, RxStar(ml, RxPlus(ml, Positions(ml), DigitSet), SpaceChars),
                                {"+", "-", "*", "/"}), SpaceChars), DigitSet) # {}

\* the router after its crisis step: [priority, tool, trigger]
\* A router that asks the subject classifier before the manipulation detector.
\* RouterStrictPrecedence tells it from the router of the source.
RouteSubjectFirst(ml) ==
    LET Routed(c) ==
        IF c.restricted
        THEN [priority |-> "subject_restricted",
              tool |-> IF Truthy(c.subject) THEN c.subject ELSE "restricted",
              trigger |-> c.subject]
        ELSE IF detect_manipulation_attempt(ml)
        THEN [priority |-> "manipulation", tool |-> "security", trigger |-> None]
        ELSE IF ContainsAny(ml, org_indicators)
        THEN [priority |-> "organization", tool |-> "planner", trigger |-> None]
        ELSE IF ArithmeticPattern(ml) \/ ContainsAny(ml, math_keywords)
        THEN [priority |-> "math", tool |-> "mira", trigger |-> None]
        ELSE [priority |-> "general", tool |-> "lumii_main", trigger |-> None]
    IN  Routed(classify_subject_request(ml))

RouteNonCrisis(ml) ==
    LET Routed(c) ==
        IF detect_manipulation_attempt(ml)
        THEN [priority |-> "manipulation", tool |-> "security", trigger |-> None]
        ELSE IF c.restricted
        THEN [priority |-> "subject_restricted",
              tool |-> IF Truthy(c.subject) THEN c.subject ELSE "restricted",
              trigger |-> c.subject]
        ELSE IF ContainsAny(ml, org_indicators)
        THEN [priority |-> "organization", tool |-> "planner", trigger |-> None]
        ELSE IF ArithmeticPattern(ml) \/ ContainsAny(ml, math_keywords)
        THEN [priority |-> "math", tool |-> "mira", trigger |-> None]
        ELSE IF ContainsAny(ml, geo_keywords)
        THEN [priority |-> "general", tool |-> "lumii_main", trigger |-> None]
        ELSE [priority |-> "general", tool |-> "lumii_main", trigger |-> None]
    IN  Routed(classify_subject_request(ml))

\* the router after its crisis step, over Strings
Routes == [s \in Strings |-> RouteNonCrisis(s)]

\* A router that asks the crisis guard only after the manipulation and the
\* subject screens.  ExplicitCrisisWins tells it from the router of the source.
RouteBeforeCrisisGuard(st, message) ==
    LET Routed(guard, route) ==
            IF route.priority \in {"manipulation", "subject_restricted"}
            THEN [state |-> st, priority |-> route.priority, tool |-> route.tool,
                  trigger |-> route.trigger]
            ELSE IF guard.triggered
            THEN [state |-> guard.state, priority |-> "crisis", tool |-> "crisis",
                  trigger |-> None]
            ELSE [state |-> guard.state, priority |-> route.priority, tool |-> route.tool,
                  trigger |-> route.trigger]
        Normalized(ml) ==
            Routed(global_crisis_guard(st, ml), Memo(Routes, ml, RouteNonCrisis(ml)))
    IN  Normalized(Memo(NormalizedLower, message, Lower(normalize_message(message))))

\* Returns [state, priority, tool, trigger].
detect_priority_smart_with_safety(st, message) ==
    LET Routed(guard, route) ==
            IF guard.triggered
            THEN [state |-> guard.state, priority |-> "crisis", tool |-> "crisis",
                  trigger |-> None]
            ELSE [state |-> guard.state, priority |-> route.priority, tool |-> route.tool,
                  trigger |-> route.trigger]
        Normalized(ml) ==
            Routed(global_crisis_guard(st, ml), Memo(Routes, ml, RouteNonCrisis(ml)))
    IN  Normalized(Memo(NormalizedLower, message, Lower(normalize_message(message))))

\* ===================================================================
\* Response generation wrapper
\* ===================================================================

\* the result dict; error None stands for a dict without the key "error"
Result(content, badge, priority, error) ==
    IF error = None THEN [content |-> content, badge |-> badge, priority |-> priority]
    ELSE [content |-> content, badge |-> badge, priority |-> priority, error |-> error]

\* what one call of generate_response_with_memory_safety did
Turn(st, result, routed, llm_calls, llm) ==
    [state |-> st, result |-> result, priority |-> routed.priority, trigger |-> routed.trigger,
     llm_calls |-> llm_calls, posts |-> llm.posts, sleeps |-> llm.sleeps,
     request |-> llm.request, raised |-> llm.raised]

\* a turn that never calls the LLM client
NoLlm == LlmOutcome(None, None, FALSE, None, NoHttp, <<>>)

\* the result of a call that raises: there is none
NoResult == [exception |-> TRUE]

\* the safe path of generate_response_with_memory_safety
SafePath(st, message, tool_name, api_key, groq_key, backend, routed, age, name) ==
    LET Returned(llm) ==
            IF llm.raised # None THEN Turn(st, NoResult, routed, 1, llm)
            ELSE IF Truthy(llm.err)
            THEN Turn(st, Result("(warning) " \o llm.err, "(warning) Error", "error", llm.err),
                      routed, 1, llm)
            ELSE Turn(st, Result(IF Truthy(llm.ai) THEN llm.ai ELSE "",
                                 "(robot) Lumii", "general", None),
                      routed, 1, llm)
    IN  Returned(get_groq_response_with_memory_safety(
                     st, message, tool_name, age, name, FALSE, api_key, groq_key, backend))

\* A wrapper without the subject gate: a restricted subject takes the safe
\* path.  ScriptedPrioritiesBypassLlm tells it from the wrapper of the source.
RespondWithoutSubjectGate(st0, message, tool_name, api_key, groq_key, backend) ==
    LET Dispatch(routed, st, age, name) ==
            IF routed.priority = "crisis"
            THEN Turn(Put(Put(st, "post_crisis_monitoring", TRUE),
                          "safety_interventions", Get(st, "safety_interventions", 0) + 1),
                      Result(generate_age_adaptive_crisis_intervention(age, name),
                             "(siren) Lumii's Crisis Response", "crisis", None),
                      routed, 0, NoLlm)
            ELSE IF routed.priority = "manipulation"
            THEN Turn(st, Result(generate_manipulation_response(age, name),
                                 "(shield) Lumii's Security Response", "manipulation", None),
                      routed, 0, NoLlm)
            ELSE SafePath(st, message, tool_name, api_key, groq_key, backend, routed, age, name)
        Aged(routed, aged) ==
            Dispatch(routed, aged.state, aged.age, Get(aged.state, "student_name", ""))
        Routed(routed) ==
            Aged(routed, detect_age_from_message_and_history(routed.state, message))
    IN  Routed(detect_priority_smart_with_safety(initialize_state(st0), message))

\* Returns the Turn record: the state after the call, the result returned
\* (None if the call raises), the router's priority and the calls made.
generate_response_with_memory_safety(st0, message, tool_name, api_key, groq_key, backend) ==
    LET Dispatch(routed, st, age, name) ==
            IF routed.priority = "crisis"
            THEN Turn(Put(Put(st, "post_crisis_monitoring", TRUE),
                          "safety_interventions", Get(st, "safety_interventions", 0) + 1),
                      Result(generate_age_adaptive_crisis_intervention(age, name),
                             "(siren) Lumii's Crisis Response", "crisis", None),
                      routed, 0, NoLlm)
            ELSE IF routed.priority = "manipulation"
            THEN Turn(st, Result(generate_manipulation_response(age, name),
                                 "(shield) Lumii's Security Response", "manipulation", None),
                      routed, 0, NoLlm)
            ELSE IF routed.priority = "subject_restricted"
            THEN Turn(st, Result(generate_subject_restriction_response(
                                     IF Truthy(routed.trigger) THEN routed.trigger
                                     ELSE IF Truthy(routed.tool) THEN routed.tool ELSE "",
                                     age, name),
                                 "(books) Lumii's Beta Subject Focus", "subject_restricted",
                                 None),
                      routed, 0, NoLlm)
            ELSE SafePath(st, message, tool_name, api_key, groq_key, backend, routed, age, name)
        Aged(routed, aged) ==
            Dispatch(routed, aged.state, aged.age, Get(aged.state, "student_name", ""))
        Routed(routed) ==
            Aged(routed, detect_age_from_message_and_history(routed.state, message))
    IN  Routed(detect_priority_smart_with_safety(initialize_state(st0), message))

\* ===================================================================
\* The session: calls of the library on one LumiiState
\* ===================================================================

\* what requests.post does on one attempt
Ok200(text) ==
    [exc |-> FALSE, status_code |-> 200, text |-> text,
     json |-> JObj([choices |-> JArr(<<JObj([message |-> JObj([content |-> JStr(text)])])>>)])]
Http(status_code, text) ==
    [exc |-> FALSE, status_code |-> status_code, text |-> text, json |-> JNull]
Garbled == [exc |-> FALSE, status_code |-> 200, text |-> "<html>", json |-> JInvalid]
\* HTTP 200 with a body that parses as JSON but is not a chat completion
Body200(json) == [exc |-> FALSE, status_code |-> 200, text |-> "json", json |-> json]
Raises(text) == [exc |-> TRUE, text |-> text]

\* What the backend does on the attempts of one call: it answers, it fails
\* twice and then answers, it is down, it refuses the key, it stays
\* overloaded, it sends a body that is no JSON, it sends JSON that is a
\* list, an object without choices, an object whose choices are a string.
Networks ==
    {<<Ok200(t), Ok200(t), Ok200(t)>> : t \in ReplyTexts}
    \cup {<<Http(500, "busy"), Raises("timed out"), Ok200("2+2 is 4.")>>,
          <<Raises("refused"), Raises("refused"), Raises("refused")>>,
          <<Http(401, "bad key"), Http(401, "bad key"), Http(401, "bad key")>>,
          <<Http(503, "busy"), Http(503, "busy"), Http(503, "busy")>>,
          <<Garbled, Garbled, Garbled>>}
    \cup {<<Body200(j), Body200(j), Body200(j)>> :
              j \in {JArr(<<>>), JObj(<<>>), JObj([choices |-> JStr("x")])}}

\* the api_key argument (None is "") and SETTINGS.groq_api_key
ApiKeys == {"", "gsk_arg"}
GroqKeys == {"", "gsk_env"}

\* the messages given to the age resolver when it is called on its own
AgeMessages == {"hello", "im 9", "grade 3", "I'm 14"}

\* the number of calls of a session
MaxCalls == 2

VARIABLES
    state,          \* the LumiiState of the session
    groq_api_key,   \* SETTINGS.groq_api_key
    sent,           \* the messages of the calls made so far
    observed,       \* what the last call returned and did
    daily_quota,    \* st.session_state["daily_quota"]["used"]
    input, output   \* the argument and the value of a pure function

vars == <<state, groq_api_key, sent, observed, daily_quota, input, output>>

Idle == [op |-> "none"]

Init ==
    /\ state = LumiiState
    /\ groq_api_key \in GroqKeys
    /\ sent = <<>>
    /\ observed = Idle
    /\ daily_quota = 0
    /\ input = Idle
    /\ output = Idle

\* result = generate_response_with_memory_safety(state, message, "lumii_main", api_key)
\* while the backend behaves as backend; delivered is what requests.post
\* did on the attempts that were made.
Respond(message, api_key, backend) ==
    /\ Len(sent) < MaxCalls
    /\ LET Returned(t) ==
               /\ state' = t.state
               /\ observed' = [op |-> "respond", message |-> message, api_key |-> api_key,
                               result |-> t.result,
                               priority |-> t.priority, llm_calls |-> t.llm_calls,
                               posts |-> t.posts, sleeps |-> t.sleeps, request |-> t.request,
                               delivered |-> SubSeq(backend, 1, t.posts), raised |-> t.raised]
       IN  Returned(generate_response_with_memory_safety(
                        state, message, "lumii_main", api_key, groq_api_key, backend))
    /\ sent' = Append(sent, message)
    /\ UNCHANGED <<groq_api_key, daily_quota, input, output>>

\* age = detect_age_from_message_and_history(state, message)
DetectAge(message) ==
    /\ Len(sent) < MaxCalls
    /\ LET Returned(r) ==
               /\ state' = r.state
               /\ observed' = [op |-> "detect_age", message |-> message, age |-> r.age]
       IN  Returned(detect_age_from_message_and_history(state, message))
    /\ sent' = Append(sent, message)
    /\ UNCHANGED <<groq_api_key, daily_quota, input, output>>

\* DAILY_LIMIT of app.py
DAILY_LIMIT == 20

\* the reply of the chat handler while no key is in st.secrets
OfflineHelper ==
    "I|m currently offline, but I can still help you structure this!\n\n1) Tell me what the problem is.\n2) Share what you|ve tried.\n3) I|ll guide you step-by-step."

\* the reply of the chat handler when the result has no content
TemporaryIssue == "I ran into a temporary issue. Let|s try again."

\* what a student types into st.chat_input
ChatMessages == {"hello", "2+2", "kill myself"}

\* state["messages"], the list st.session_state["messages"], with one more entry
AppendMessage(st, role, content) ==
    Put(st, "messages", Append(Get(st, "messages", <<>>), Msg(role, content)))

\* The chat handler of app.py for one submitted message, on one day: the
\* daily cap, the user message appended to the history, the offline helper
\* without a key, and otherwise the call of
\* generate_response_with_memory_safety and its reply appended to the
\* history.  A call that raises ends the run of the script after the user
\* message and the quota were written.
Chat(user_msg, api_key, backend) ==
    /\ Len(sent) < MaxCalls
    /\ sent' = Append(sent, user_msg)
    /\ UNCHANGED <<groq_api_key, input, output>>
    /\ IF daily_quota >= DAILY_LIMIT
       THEN /\ state' = SetDefault(state, "messages", <<>>)
            /\ daily_quota' = daily_quota
            /\ observed' = [op |-> "chat", message |-> user_msg, outcome |-> "limit"]
       ELSE IF ~Truthy(api_key)
       THEN /\ state' = AppendMessage(AppendMessage(state, "user", user_msg),
                                      "assistant", OfflineHelper)
            /\ daily_quota' = daily_quota
            /\ observed' = [op |-> "chat", message |-> user_msg, outcome |-> "offline"]
       ELSE LET Returned(t) ==
                    /\ state' = IF t.raised # None THEN t.state
                                ELSE AppendMessage(t.state, "assistant",
                                         IF Truthy(t.result.content) THEN t.result.content
                                         ELSE TemporaryIssue)
                    /\ observed' = [op |-> "chat", message |-> user_msg,
                                    outcome |-> IF t.raised # None THEN "raised" ELSE "replied",
                                    result |-> t.result, priority |-> t.priority,
                                    posts |-> t.posts, request |-> t.request,
                                    raised |-> t.raised]
            IN  /\ daily_quota' = daily_quota + 1
                /\ Returned(generate_response_with_memory_safety(
                                AppendMessage(state, "user", user_msg), user_msg,
                                "lumii_main", api_key, groq_api_key, backend))

Next ==
    \/ \E message \in Messages, api_key \in ApiKeys, backend \in Networks :
           Respond(message, api_key, backend)
    \/ \E message \in AgeMessages : DetectAge(message)
    \/ \E user_msg \in ChatMessages, api_key \in ApiKeys, backend \in Networks :
           Chat(user_msg, api_key, backend)

Spec == Init /\ [][Next]_vars

\* ===================================================================
\* Properties of the session
\* ===================================================================

\* the messages in which, once normalized and lower-cased, an explicit crisis
\* phrase stands as whole words
ExplicitCrisisMessages ==
    {m \in Messages : SearchWords(Lower(normalize_message(m)), EXPLICIT_CRISIS_PHRASES)}

\* C1: for every session state and every message that contains an explicit
\* crisis phrase, whatever else the message contains, respond returns
\* priority crisis and makes no call to the LLM client and no HTTP POST.
ExplicitCrisisWins ==
    (observed.op = "respond" /\ observed.message \in ExplicitCrisisMessages)
        => /\ observed.priority = "crisis"
           /\ observed.result.priority = "crisis"
           /\ observed.llm_calls = 0
           /\ observed.posts = 0

\* a second call of a session answers a crisis phrase that comes with a
\* framing phrase, a restricted subject word and an arithmetic cue
ExplicitCrisisWinsWitness ==
    /\ Len(sent) = 2
    /\ observed.op = "respond"
    /\ observed.message = "My teacher said SUICIDE, dna 2+2"
    /\ observed.priority = "crisis"
    /\ observed.posts = 0

\* the scripted messages of a priority for a student of that age and name
ScriptedMessages(priority, age, name) ==
    CASE priority = "crisis" -> {generate_age_adaptive_crisis_intervention(age, name)}
      [] priority = "manipulation" -> {generate_manipulation_response(age, name)}
      [] priority = "subject_restricted" ->
             {generate_subject_restriction_response(_BETA_RESTRICTED_SUBJECTS[k], age, name) :
                  k \in 1..Len(_BETA_RESTRICTED_SUBJECTS)}
      [] OTHER -> {}

ScriptedPriorities == {"crisis", "manipulation", "subject_restricted"}

\* C2: whenever the router classifies a message as crisis, manipulation or
\* subject_restricted, respond returns the scripted message of that priority
\* under that priority label and the LLM client is not invoked in that turn;
\* the LLM client is invoked only for organization, math and general.
ScriptedPrioritiesBypassLlm ==
    observed.op = "respond"
        => /\ observed.priority \in ScriptedPriorities
               => /\ observed.result.priority = observed.priority
                  /\ observed.result.content \in
                         ScriptedMessages(observed.priority, state["student_age"],
                                          Get(state, "student_name", ""))
                  /\ observed.llm_calls = 0
                  /\ observed.posts = 0
           /\ (observed.llm_calls > 0 \/ observed.posts > 0)
               => observed.priority \in {"organization", "math", "general"}

\* a restricted subject was answered by the script, with a backend at hand
\* and a key configured
ScriptedPrioritiesBypassLlmWitness ==
    /\ observed.op = "respond"
    /\ observed.message = "dna"
    /\ observed.priority = "subject_restricted"
    /\ observed.result.priority = "subject_restricted"
    /\ observed.llm_calls = 0
    /\ groq_api_key # ""

\* state.student_age holds an integer
AgePersisted(st) == Has(st, "student_age") /\ st["student_age"] \in Int

\* C3: sticky age: once state.student_age holds an integer, no later respond
\* or age-resolver call, whatever its message, changes state.student_age or
\* state.student_grade.
StickyAge ==
    [][AgePersisted(state)
           => /\ AgePersisted(state')
              /\ state'["student_age"] = state["student_age"]
              /\ Has(state, "student_grade") = Has(state', "student_grade")
              /\ Get(state', "student_grade", None) = Get(state, "student_grade", None)]_vars

\* after "im 9" set the age, a message stating another age was handled
StickyAgeWitness ==
    /\ Len(sent) = 2
    /\ sent[1] = "im 9"
    /\ sent[2] = "I'm 14"
    /\ state["student_age"] = 9
    /\ state["student_grade"] = 4

\* the messages of the session that state a grade or an age, with the age
\* and the grade they state
StrongSignals ==
    [m \in {"im 9", "grade 3", "I'm 14"} |->
        CASE m = "im 9" -> [age |-> 9, grade |-> 4]
          [] m = "grade 3" -> [age |-> 8, grade |-> 3]
          [] m = "I'm 14" -> [age |-> 14, grade |-> 9]]

\* C4: first strong signal wins: in a session that starts with no persisted
\* age or grade, the first message that states a grade or an age determines
\* state.student_age and state.student_grade, also when earlier turns of the
\* session carried no such signal.
FirstStrongSignalWins ==
    \A i \in 1..Len(sent) :
        (/\ sent[i] \in DOMAIN StrongSignals
         /\ \A j \in 1..(i - 1) : sent[j] \notin DOMAIN StrongSignals)
            => /\ state["student_age"] = StrongSignals[sent[i]].age
               /\ state["student_grade"] = StrongSignals[sent[i]].grade

PlantsQuestion == "how do plants photosynthesize"

\* C7: the subject classifier returns restricted with subject biology for
\* "how do plants photosynthesize", and respond classifies that message as
\* subject_restricted whatever state.student_age is.
PlantsQuestionRestricted ==
    (observed.op = "respond" /\ observed.message = PlantsQuestion)
        => /\ SubjectVerdicts[PlantsQuestion] = [restricted |-> TRUE, subject |-> "biology"]
           /\ observed.priority = "subject_restricted"
           /\ observed.result.priority = "subject_restricted"

\* the replies in which, once normalized and lower-cased as the validator
\* does, a forbidden response pattern is found
ForbiddenReplies ==
    {t \in ReplyTexts :
        \E k \in FORBIDDEN_RESPONSE_PATTERNS : ForbiddenPattern(k, Lower(normalize_message(t)))}

\* some forbidden response pattern is found in the text
MatchesForbidden(text) == \E k \in FORBIDDEN_RESPONSE_PATTERNS : ForbiddenPattern(k, text)

\* the last attempt of the call was answered with HTTP 200 and a forbidden text
ForbiddenAnswer ==
    /\ observed.op = "respond"
    /\ observed.posts > 0
    /\ ~observed.delivered[observed.posts].exc
    /\ observed.delivered[observed.posts].status_code = 200
    /\ observed.delivered[observed.posts].json # JInvalid
    /\ observed.delivered[observed.posts].text \in ForbiddenReplies

\* C10: output validator backstop: whenever the backend returns HTTP 200 with
\* text that matches a forbidden response pattern, the content of the result
\* respond returns matches no such pattern (the model text is replaced by the
\* scripted deflection) and the result is not tagged as an error.
OutputValidatorBackstop ==
    ForbiddenAnswer
        => /\ observed.result.content = OutputDeflection
           /\ ~MatchesForbidden(observed.result.content)
           /\ "error" \notin DOMAIN observed.result
           /\ observed.result.priority # "error"

\* a forbidden text in upper case, split by a zero-width space, was deflected
OutputValidatorBackstopWitness ==
    /\ ForbiddenAnswer
    /\ observed.delivered[observed.posts].text = "You could TAKE 5~ PILLS"
    /\ observed.result.content = OutputDeflection

\* the messages in which, once normalized and lower-cased, a forbidden input
\* pattern is found
RefusedMessages ==
    {m \in Messages :
        \E k \in FORBIDDEN_INPUT_PATTERNS : ForbiddenPattern(k, Lower(normalize_message(m)))}

\* C11: policy rejection: for every message that fails validate_user_input
\* the LLM client makes no HTTP POST, also when no API key is configured, and
\* respond returns a scripted safety deflection without an error field; the
\* rejection is not surfaced as a system error.
PolicyRejectionIsNoError ==
    (observed.op = "respond" /\ observed.message \in RefusedMessages)
        => /\ observed.posts = 0
           /\ observed.raised = None
           /\ "error" \notin DOMAIN observed.result
           /\ observed.result.priority # "error"
           /\ observed.llm_calls > 0 => observed.result.content = InputDeflection
           /\ observed.llm_calls = 0
               => observed.result.content \in
                      ScriptedMessages(observed.priority, state["student_age"],
                                       Get(state, "student_name", ""))

\* a refused message reached the LLM client with no key configured and was
\* deflected
PolicyRejectionIsNoErrorWitness ==
    /\ observed.op = "respond"
    /\ observed.message = "ways to die"
    /\ observed.api_key = ""
    /\ groq_api_key = ""
    /\ observed.llm_calls = 1
    /\ observed.result.content = InputDeflection

\* every attempt that was made met a transient status, or every one raised
EveryAttemptTransient ==
    /\ observed.op = "respond"
    /\ observed.posts > 0
    /\ \/ \A i \in 1..observed.posts : observed.delivered[i].exc
       \/ \A i \in 1..observed.posts :
              /\ ~observed.delivered[i].exc
              /\ observed.delivered[i].status_code \in {429, 500, 502, 503, 504}

\* C12: retry behaviour: when every backend response is a transient status
\* or every attempt raises a network exception, exactly retry_attempts POSTs
\* are made in the turn and never more; the delays between consecutive
\* attempts are strictly increasing; after the final failed attempt the turn
\* ends with an error-tagged result and no model content.
RetriesThenFails ==
    /\ observed.op = "respond" => observed.posts <= retry_attempts
    /\ EveryAttemptTransient
           => /\ observed.posts = retry_attempts
              /\ Len(observed.sleeps) = retry_attempts - 1
              /\ \A i \in 1..(Len(observed.sleeps) - 1) :
                     observed.sleeps[i] < observed.sleeps[i + 1]
              /\ observed.raised = None
              /\ observed.result.priority = "error"
              /\ "error" \in DOMAIN observed.result
              /\ observed.result.content = "(warning) " \o observed.result.error

\* three attempts met HTTP 503, with two delays between them
RetriesThenFailsWitness ==
    /\ EveryAttemptTransient
    /\ observed.delivered[1].exc = FALSE
    /\ observed.delivered[1].status_code = 503
    /\ observed.posts = 3
    /\ observed.sleeps = <<500, 1000>>
    /\ observed.result.priority = "error"

\* the bodies of a 200 that are no JSON, or hold no content or an empty one
TerminalBodies == {JInvalid, JObj(<<>>), Ok200("").json}

\* the first response has a terminal status, or is a 200 with such a body
FirstResponseTerminal ==
    /\ observed.op = "respond"
    /\ observed.posts > 0
    /\ ~observed.delivered[1].exc
    /\ \/ observed.delivered[1].status_code \notin {200, 429, 500, 502, 503, 504}
       \/ /\ observed.delivered[1].status_code = 200
          /\ observed.delivered[1].json \in TerminalBodies

\* the turn called the LLM client with an accepted message and without a key
CalledWithoutKey ==
    /\ observed.op = "respond"
    /\ observed.llm_calls > 0
    /\ observed.message \notin RefusedMessages
    /\ observed.api_key = ""
    /\ groq_api_key = ""

\* the turn returned an error-tagged result
ErrorResult ==
    /\ observed.raised = None
    /\ observed.result.priority = "error"
    /\ "error" \in DOMAIN observed.result

FreshPriorities ==
    [m \in Messages |-> detect_priority_smart_with_safety(LumiiState, m).priority]

\* C14: idempotence of classification: the priority the router assigns to a
\* message is the same in any two session states (it does not depend on
\* counters, flags, age, grade or name), so calling respond twice in a row
\* with the same message yields the same priority both times.
PriorityIgnoresSessionState ==
    observed.op = "respond" => observed.priority = FreshPriorities[observed.message]

\* the same message was sent twice in a row to a session that the first turn
\* changed, and the second turn was routed math again
PriorityIgnoresSessionStateWitness ==
    /\ observed.op = "respond"
    /\ Len(sent) = 2
    /\ sent[1] = "2+2"
    /\ sent[2] = "2+2"
    /\ AgePersisted(state)
    /\ observed.priority = "math"

\* min(18, max(6, n))
ClampAge(n) == IF n < 6 THEN 6 ELSE IF n > 18 THEN 18 ELSE n

\* C15: age/grade invariant: in every state reachable from an empty session,
\* once student_age and student_grade are both persisted, student_age is in
\* [6,18], student_grade is in [1,12], and
\* student_age = min(18, max(6, student_grade + 5)).
AgeGradeDerivable ==
    (Has(state, "student_age") /\ Has(state, "student_grade"))
        => /\ state["student_age"] \in 6..18
           /\ state["student_grade"] \in 1..12
           /\ state["student_age"] = ClampAge(state["student_grade"] + 5)

\* C16: when the LLM client returns an error, respond returns an error-tagged
\* result whose content does not contain the internal error text; the raw
\* error appears only in the result's error field.
ErrorTextStaysInErrorField ==
    (observed.op = "respond" /\ observed.raised = None
                            /\ "error" \in DOMAIN observed.result)
        => /\ observed.result.priority = "error"
           /\ ~Contains(observed.result.content, observed.result.error)

\* C17: errors never crash the turn: for every backend outcome (an exception
\* on every attempt, any HTTP status, a 200 with a non-JSON body, a 200 whose
\* JSON is not an object or whose choices are absent, empty or of the wrong
\* shape) respond returns a result instead of raising, and leaves
\* state.messages unchanged.
RespondAlwaysReturns ==
    observed.op = "respond"
        => /\ observed.raised = None
           /\ observed.result # NoResult
           /\ state["messages"] = <<>>

\* state.post_crisis_monitoring, false while the key is absent
Monitoring(st) == Get(st, "post_crisis_monitoring", FALSE)

\* C19: post_crisis_monitoring is a latch: it is true after the turn in which
\* a crisis is detected, and once true it stays true after every later call,
\* whatever its priority, the state initialization at the start of each call
\* included.
MonitoringIsALatch ==
    /\ []((observed.op = "respond" /\ observed.priority = "crisis") => Monitoring(state))
    /\ [][Monitoring(state) => Monitoring(state')]_vars

\* after a crisis turn, a turn that ended in an LLM error left the flag set
MonitoringIsALatchWitness ==
    /\ Len(sent) = 2
    /\ sent[1] = "kill myself"
    /\ observed.op = "respond"
    /\ observed.message = "hello"
    /\ observed.raised = None
    /\ observed.result.priority = "error"
    /\ Monitoring(state)

\* the messages that state an age and no grade, with the age they state
StatedAges == ("im 9" :> 9) @@ ("I'm 14" :> 14) @@ ("I'm 18" :> 18) @@ ("i am 25" :> 25)

\* C20: age resolver step (c): when no age is persisted and the message has
\* no grade mention but states an age, the stated age is clamped to [6,18]
\* and the clamped age is persisted as student_age with a derived
\* student_grade; a stated age above 18 persists 18.
StatedAgeIsClamped ==
    [][(/\ ~AgePersisted(state)
        /\ AgePersisted(state')
        /\ observed'.message \in DOMAIN StatedAges)
           => /\ state'["student_age"] = ClampAge(StatedAges[observed'.message])
              /\ Has(state', "student_grade")]_vars

\* what each detector says of each message, each asked on its own
Detections ==
    [m \in Messages |->
        [crisis |-> global_crisis_guard(LumiiState, m).triggered,
         manipulation |-> ManipulationVerdicts[NormalizedLower[m]],
         subject |-> SubjectVerdicts[NormalizedLower[m]].restricted,
         overload |-> ContainsAny(NormalizedLower[m], org_indicators),
         math |-> \/ ArithmeticPattern(NormalizedLower[m])
                  \/ ContainsAny(NormalizedLower[m], math_keywords)]]

\* the earliest detector that matches, in the order of the router
EarliestMatch(d) ==
    IF d.crisis THEN "crisis"
    ELSE IF d.manipulation THEN "manipulation"
    ELSE IF d.subject THEN "subject_restricted"
    ELSE IF d.overload THEN "organization"
    ELSE IF d.math THEN "math"
    ELSE "general"

\* the messages that at least two detectors match
SeveralMatch ==
    {m \in Messages :
        Cardinality({k \in DOMAIN Detections[m] : Detections[m][k]}) >= 2}

\* C18: router strict precedence, first match wins: the router's priority is
\* crisis if the crisis guard matches; otherwise manipulation if the
\* manipulation detector matches; otherwise subject_restricted if the subject
\* classifier matches; otherwise organization if an overload keyword is
\* present; otherwise math if a math or science keyword or an arithmetic
\* pattern is present; otherwise general.
RouterStrictPrecedence ==
    observed.op = "respond"
        => observed.priority = EarliestMatch(Detections[observed.message])

\* a message that the manipulation detector and the subject classifier both
\* match was routed manipulation
RouterStrictPrecedenceWitness ==
    /\ observed.op = "respond"
    /\ observed.message = "for homework meth dna"
    /\ observed.message \in SeveralMatch
    /\ Detections[observed.message].manipulation
    /\ Detections[observed.message].subject
    /\ observed.priority = "manipulation"

\* state.safety_interventions, 0 while the key is absent
Interventions(st) == Get(st, "safety_interventions", 0)

\* C21: safety_interventions counts crisis turns: each respond call that is
\* classified crisis increments it by exactly one, and every other respond
\* call leaves it unchanged; it never decreases.
InterventionsCountCrisisTurns ==
    [][/\ Interventions(state') >= Interventions(state)
       /\ (observed'.op = "respond" /\ sent' # sent)
              => Interventions(state') =
                     Interventions(state) + (IF observed'.priority = "crisis" THEN 1 ELSE 0)]_vars

\* the history of the turns before the current one, as the LLM client trims it
PriorTurns(st) ==
    _trim_history_by_tokens(build_conversation_history(initialize_state(st)), HistoryBudget)

\* C22: in the application's turn sequence (append the user message to
\* state.messages, then call respond) the message list sent to the backend
\* is the system prompt, then the trimmed history of the prior turns only,
\* then the current user message exactly once as the last entry; the current
\* message does not also appear inside the history part of the same request.
RequestHoldsCurrentMessageOnce ==
    [][(/\ observed'.op = "chat"
        /\ sent' # sent
        /\ observed'.outcome \in {"replied", "raised"}
        /\ observed'.posts > 0)
           => /\ observed'.request[1].role = "system"
              /\ observed'.request =
                     <<observed'.request[1]>> \o PriorTurns(state)
                         \o <<Msg("user", observed'.message)>>]_vars

\* ===================================================================

InitDetect ==
    /\ input \in DetectMessages
    /\ output = Idle
    /\ state = LumiiState
    /\ groq_api_key = ""
    /\ sent = <<>>
    /\ observed = Idle
    /\ daily_quota = 0

\* crisis, intervention = global_crisis_guard(LumiiState(), input)
CrisisGuard ==
    /\ output.op # "global_crisis_guard"
    /\ output' = [op |-> "global_crisis_guard",
                  triggered |-> global_crisis_guard(LumiiState, input).triggered]
    /\ UNCHANGED <<state, groq_api_key, sent, observed, daily_quota, input>>

\* detect_manipulation_attempt(input)
Manipulation ==
    /\ output.op # "detect_manipulation_attempt"
    /\ output' = [op |-> "detect_manipulation_attempt",
                  flagged |-> Memo(ManipulationVerdicts, input,
                                   detect_manipulation_attempt(input))]
    /\ UNCHANGED <<state, groq_api_key, sent, observed, daily_quota, input>>

\* is_restricted, subject = classify_subject_request(input)
Classify ==
    /\ output.op # "classify_subject_request"
    /\ LET Returned(c) ==
               output' = [op |-> "classify_subject_request",
                          restricted |-> c.restricted, subject |-> c.subject]
       IN  Returned(Memo(SubjectVerdicts, input, classify_subject_request(input)))
    /\ UNCHANGED <<state, groq_api_key, sent, observed, daily_quota, input>>

NextDetect == CrisisGuard \/ Manipulation \/ Classify

SpecDetect == InitDetect /\ [][NextDetect]_vars

\* ===================================================================
\* Properties of the detectors
\* ===================================================================

\* the collocations of WishEnds that name a class or the school
BenignCollocations == {" from math class", " from school"}

\* the messages that end in a euphemism followed by such a collocation, and
\* the ones that end in the bare euphemism
BenignEuphemisms ==
    {w \o e \o t : w \in WishStarts, e \in Euphemisms, t \in BenignCollocations}
BareEuphemisms == {w \o e : w \in WishStarts, e \in Euphemisms}

\* C5: euphemism exclusion: a euphemism ("disappear", "vanish") immediately
\* followed by a benign collocation does not trigger the crisis guard, so
\* "I want to disappear from math class" is not crisis; the same euphemism
\* without the collocation, so "I just want to disappear", is crisis.
EuphemismExclusion ==
    output.op = "global_crisis_guard"
        => /\ input \in BenignEuphemisms => ~output.triggered
           /\ input \in BareEuphemisms => output.triggered

\* the message has a framing phrase; a harmful-content pattern; a red flag
HasFraming(message) == ContainsAny(Lower(normalize_message(message)), _MANIPULATION_FRAMINGS)
HasHarmfulContent(message) ==
    \E k \in 1..Len(_HARMFUL_CONTENT_PATTERNS) :
        SearchWords(Lower(normalize_message(message)), _HARMFUL_CONTENT_PATTERNS[k])
HasRedFlag(message) == ContainsAny(Lower(normalize_message(message)), red_flags)

\* the messages for which the claim asks for a positive verdict
CoOccurrences ==
    {m \in DetectMessages : HasFraming(m) /\ (HasHarmfulContent(m) \/ HasRedFlag(m))}

\* C6: manipulation requires co-occurrence: detect_manipulation_attempt
\* returns true if and only if the message has a framing phrase and also a
\* harmful-content pattern or a red-flag keyword; framing with benign content
\* is false, and a red flag or a harmful pattern without framing is false.
ManipulationNeedsCoOccurrence ==
    output.op = "detect_manipulation_attempt"
        => (output.flagged <=> input \in CoOccurrences)

\* a framing phrase in capitals, with a doubled space and a zero-width space,
\* came with a red flag and was flagged
ManipulationNeedsCoOccurrenceWitness ==
    /\ output.op = "detect_manipulation_attempt"
    /\ input = "MY  MOM~ SAID send nudes"
    /\ output.flagged

\* ===================================================================
\* History trimming, applied to one history and one budget
\* ===================================================================

TrimContents == {"", "hi", "hello", "hello world"}
TrimRoles == {"user", "assistant"}
\* the longest history and the largest budget
MaxHistory == 3
MaxBudget == 5

Histories ==
    UNION {[1..len -> {Msg(r, c) : r \in TrimRoles, c \in TrimContents}] : len \in 0..MaxHistory}

InitTrim ==
    /\ input \in {[history |-> h, budget |-> b] : h \in Histories, b \in 0..MaxBudget}
    /\ output = Idle
    /\ state = LumiiState
    /\ groq_api_key = ""
    /\ sent = <<>>
    /\ observed = Idle
    /\ daily_quota = 0

\* trimmed = _trim_history_by_tokens(history, budget)
Trim ==
    /\ output = Idle
    /\ output' = [op |-> "_trim_history_by_tokens",
                  trimmed |-> _trim_history_by_tokens(input.history, input.budget)]
    /\ UNCHANGED <<state, groq_api_key, sent, observed, daily_quota, input>>

NextTrim == Trim

SpecTrim == InitTrim /\ [][NextTrim]_vars

\* ===================================================================
\* Properties of history trimming
\* ===================================================================

\* ceil(len / 4), at least 1
EntryCost(entry) ==
    IF Len(entry.content) = 0 THEN 1
    ELSE IF Len(entry.content) % 4 = 0 THEN Len(entry.content) \div 4
    ELSE (Len(entry.content) \div 4) + 1

\* the summed cost of the entries of a history
SummedCost(history) ==
    LET sum[i \in 0..Len(history)] ==
            IF i = 0 THEN 0 ELSE sum[i - 1] + EntryCost(history[i])
    IN  sum[Len(history)]

\* the number of entries trimming dropped
Dropped == Len(input.history) - Len(output.trimmed)

\* C8: for every history and budget, _trim_history_by_tokens returns a
\* contiguous suffix of the history in chronological order whose summed
\* estimated cost (ceil(len/4), at least 1 per entry) is at most the budget;
\* the first entry that would exceed the budget is excluded whole, and an
\* empty history yields an empty list.
TrimKeepsRecentSuffix ==
    output.op = "_trim_history_by_tokens"
        => /\ Dropped >= 0
           /\ output.trimmed = SubSeq(input.history, Dropped + 1, Len(input.history))
           /\ SummedCost(output.trimmed) <= input.budget
           /\ Dropped > 0
               => SummedCost(output.trimmed) + EntryCost(input.history[Dropped])
                      > input.budget
           /\ input.history = <<>> => output.trimmed = <<>>

\* of three entries the two most recent were kept: the third would exceed
TrimKeepsRecentSuffixWitness ==
    /\ output.op = "_trim_history_by_tokens"
    /\ Len(input.history) = 3
    /\ Len(output.trimmed) = 2
    /\ SummedCost(input.history) > input.budget

\* C9 as stated: the result of trimming is never empty if some entry of the
\* history has an estimated cost not greater than the budget.
TrimNonEmptyIfAnyFits ==
    (/\ output.op = "_trim_history_by_tokens"
     /\ \E i \in 1..Len(input.history) : EntryCost(input.history[i]) <= input.budget)
        => output.trimmed # <<>>

\* C9: the result of trimming is non-empty exactly if the history is
\* non-empty and its most recent entry has an estimated cost not greater
\* than the budget.
TrimKeepsNewestThatFits ==
    output.op = "_trim_history_by_tokens"
        => (output.trimmed # <<>>
                <=> /\ input.history # <<>>
                    /\ EntryCost(input.history[Len(input.history)]) <= input.budget)

\* the most recent entry fits and is all that is kept: the one before it
\* does not fit
TrimKeepsNewestThatFitsWitness ==
    /\ output.op = "_trim_history_by_tokens"
    /\ Len(input.history) = 2
    /\ EntryCost(input.history[2]) <= input.budget
    /\ EntryCost(input.history[1]) > input.budget
    /\ output.trimmed = <<input.history[2]>>
====
